---- MODULE Spec2Model ----
(***************************************************************************)
(* The two lesson notebooks of SpatialDataFrames as a state machine.       *)
(*                                                                         *)
(*   src/unnamed/part_000                                                  *)
(*       "Spatial Dataframes 1: Creating them using GeoPandas"             *)
(*   src/lessons/1b-Creating-spatial-data-frames-with-ArcGIS-API.ipynb     *)
(*       "Spatial Dataframes 1b: ... using the ArcGIS API for Python"      *)
(*                                                                         *)
(* The program is the ordered list of code cells of a notebook.  Every     *)
(* cell is transcribed statement by statement into a small syntax tree     *)
(* (Cell_<id>), and a kernel executes the statements one at a time against *)
(* a namespace, the fiona driver table, the files on disk and the feature  *)
(* service.  The library calls the cells make are operators named after    *)
(* the library function, with the behaviour the call site relies on.       *)
(***************************************************************************)
EXTENDS Integers, Sequences, FiniteSets, TLC

VARIABLES
    nb,         \* which notebook the kernel session belongs to: "geo" or "arc"
    mode,       \* "runall": Run All, an error aborts the queued cells
                \* "step":   the cells are run one by one in document order,
                \*           the user goes on after an error
                \* "free":   the cells are run by hand in any order
    pc,         \* index of the next code cell to be submitted to the kernel
    active,     \* cell index -> index of its next statement, for executing cells
    halted,     \* Run All was aborted by an error
    ns,         \* the kernel namespace: bound name -> value
    drivers,    \* fiona.drvsupport.supported_drivers: driver name -> mode
    disk,       \* path -> [status, rows, crs]
    service,    \* url -> [status, rows, crs]: the remote feature service
    execCount,  \* cell index -> number of times the kernel executed the cell
    lastExc,    \* cell index -> exception that ended its last execution, or ""
    display,    \* cell index -> what its last execution displayed
    reads,      \* the paths handed to a file-reading call so far
    layers,     \* the URLs handed to FeatureLayer so far
    requests,   \* the URLs queried over the network so far
    binder,     \* bound name -> <<cell, statement>> that bound it last
    inplace,    \* the installed libraries add the geometry column to the frame
                \* they are handed (TRUE) or to a frame of their own (FALSE)
    snap        \* the namespace and the driver table as they were when the
                \* first pass over the notebook was complete

vars == <<nb, mode, pc, active, halted, ns, drivers, disk, service,
          execCount, lastExc, display, reads, layers, requests, binder,
          inplace, snap>>

-----------------------------------------------------------------------------
(* Bounds of the model.                                                    *)

\* the CSV file holds at most MaxRows stations
MaxRows == 2
\* at most MaxBroken of the external sources are missing or malformed
MaxBroken == 1
\* in a session run by hand at most MaxFree cell executions are requested
MaxFree == 2
\* after a complete pass at most MaxAgain single cells are executed again
MaxAgain == 1

-----------------------------------------------------------------------------
(* Literals of the notebooks.                                              *)

CsvPath     == "../data/NC_Charging_Stations.csv"
ShpPath     == "../data/Major_Basins.shp"
ZipPath     == "../data/Major_River_Basins.zip"
GeoJsonPath == "../data/Major_River_Basins.geojson"
KmlPath     == "../data/Major_River_Basins.kml"

StateLayerUrl  == "https://services.nconemap.gov/secure/rest/services/NC1Map_Regional_Boundaries/FeatureServer/0"
CountyLayerUrl == "https://services.nconemap.gov/secure/rest/services/NC1Map_Regional_Boundaries/FeatureServer/1"

WGS84 == 4326
UTM17N == 32617

-----------------------------------------------------------------------------
(* Syntax of a cell: expressions, arguments, statements.                   *)

Str(s)    == [e |-> "str",  s |-> s,  c |-> "", n |-> 0]
Num(n)    == [e |-> "int",  s |-> "", c |-> "", n |-> n]
Name(x)   == [e |-> "name", s |-> x,  c |-> "", n |-> 0]
\* x['c']
Col(x, c) == [e |-> "col",  s |-> x,  c |-> c,  n |-> 0]

\* x.a used as a value
Attr(x, a) == [e |-> "attr", s |-> x,  c |-> a,  n |-> 0]
\* an omitted argument
NoneE     == [e |-> "none", s |-> "", c |-> "", n |-> 0]

\* a positional argument, a keyword argument
P(e)     == [kw |-> "", e |-> e]
K(kw, e) == [kw |-> kw, e |-> e]

\* import module as asname
Import(module, asname) ==
    [op |-> "import", target |-> asname, fn |-> <<module>>, call |-> FALSE, args |-> <<>>]
\* from module import name
FromImport(module, name) ==
    [op |-> "import", target |-> name, fn |-> <<module, name>>, call |-> FALSE, args |-> <<>>]
\* target = fn(args)
Assign(target, fn, args) ==
    [op |-> "assign", target |-> target, fn |-> fn, call |-> TRUE, args |-> args]
\* target = literal
AssignLit(target, e) ==
    [op |-> "assign", target |-> target, fn |-> <<>>, call |-> FALSE, args |-> <<P(e)>>]
\* fn(args) as an expression statement
CallExpr(fn, args) ==
    [op |-> "expr", target |-> "", fn |-> fn, call |-> TRUE, args |-> args]
\* an attribute chain as an expression statement
AttrExpr(fn) ==
    [op |-> "expr", target |-> "", fn |-> fn, call |-> FALSE, args |-> <<>>]
\* fn?
Help(fn) ==
    [op |-> "help", target |-> "", fn |-> fn, call |-> FALSE, args |-> <<>>]
\* fn[key] = value
SetItem(fn, key, value) ==
    [op |-> "setitem", target |-> "", fn |-> fn, call |-> FALSE, args |-> <<P(key), P(value)>>]
\* source text that is no Python statement
Invalid ==
    [op |-> "invalid", target |-> "", fn |-> <<>>, call |-> FALSE, args |-> <<>>]

-----------------------------------------------------------------------------
(* The code cells of src/unnamed/part_000 (GeoPandas), in document order.  *)

Cell_1db2746e == << Import("pandas", "pd"), Import("geopandas", "gpd") >>

\* the same cell assigning the dataframe to another name
Cell_8ae16e96_data == << Assign("data", <<"pd", "read_csv">>, <<P(Str(CsvPath))>>) >>

Cell_8ae16e96 == << Assign("df", <<"pd", "read_csv">>, <<P(Str(CsvPath))>>) >>

Cell_5b16e827 == << CallExpr(<<"df", "head">>, <<>>) >>

Cell_064e516b == << Help(<<"gpd", "points_from_xy">>) >>

\* the same cell with the coordinate columns exchanged
Cell_ab1525c9_swapped ==
    << Assign("geometries", <<"gpd", "points_from_xy">>,
              << K("x", Col("df", "Latitude")), K("y", Col("df", "Longitude")) >>) >>

Cell_ab1525c9 ==
    << Assign("geometries", <<"gpd", "points_from_xy">>,
              << K("x", Col("df", "Longitude")), K("y", Col("df", "Latitude")) >>) >>

Cell_719de7cd == << Help(<<"gpd", "GeoDataFrame">>) >>

Cell_2202346a ==
    << Assign("gdf_csv", <<"gpd", "GeoDataFrame">>,
              << K("data", Name("df")), K("geometry", Name("geometries")),
                 K("crs", Num(WGS84)) >>),
       CallExpr(<<"type">>, <<P(Name("gdf_csv"))>>) >>

\* the same cell keeping the first records in a variable
Cell_0fb03212_keep == << Assign("first", <<"gdf_csv", "head">>, <<>>) >>

Cell_0fb03212 == << CallExpr(<<"gdf_csv", "head">>, <<>>) >>

Cell_2ada92fa == << CallExpr(<<"gdf_csv", "info">>, <<>>) >>

Cell_826722d1 == << AttrExpr(<<"gdf_csv", "crs">>) >>

Cell_bf4a382a == << CallExpr(<<"gdf_csv", "crs", "to_epsg">>, <<>>) >>

\* the same cell with a file name for an argument: to_csv then writes the file
Cell_53939654_path == << Assign("gdf_utm", <<"gdf_csv", "to_csv">>, <<P(Str("32617"))>>) >>

Cell_53939654 == << Assign("gdf_utm", <<"gdf_csv", "to_csv">>, <<P(Num(UTM17N))>>) >>

\* the styling keywords alpha and figsize are left out of the plot calls
Cell_66376b10 ==
    << CallExpr(<<"gdf_csv", "plot">>,
                << K("color", Str("Green")), K("marker", Str("x")) >>) >>

Cell_11a12284 == << Help(<<"gpd", "read_file">>) >>

Cell_a7c994ec == << Assign("gdf_shp", <<"gpd", "read_file">>, <<P(Str(ShpPath))>>) >>

Cell_6daff34d == << Assign("gdf_shp", <<"gpd", "read_file">>, <<P(Str(ZipPath))>>) >>

Cell_5e9afb41 == << CallExpr(<<"gdf_shp", "head">>, <<>>) >>

Cell_7ecf60e6 == << CallExpr(<<"gdf_shp", "crs", "to_string">>, <<>>) >>

Cell_a3a00fbd ==
    << CallExpr(<<"gdf_shp", "plot">>, << K("column", Str("Basin")) >>) >>

\* the same cell keeping the GeoJSON frame in gdf_shp
Cell_1b074272_shp ==
    << Assign("gdf_shp", <<"gpd", "read_file">>,
              << K("filename", Str(GeoJsonPath)), K("driver", Str("GeoJSON")) >>) >>

Cell_1b074272 ==
    << Assign("gdf_geojson", <<"gpd", "read_file">>,
              << K("filename", Str(GeoJsonPath)), K("driver", Str("GeoJSON")) >>) >>

Cell_b47d23d2 == << CallExpr(<<"gdf_geojson", "plot">>, <<>>) >>

Cell_c1c5e436 == << Import("fiona", "fiona") >>

Cell_71e07c36 == << AttrExpr(<<"fiona", "supported_drivers">>) >>

\* the same cell registering the driver under the name LIBKML
Cell_e58bade8_libkml ==
    << SetItem(<<"gpd", "io", "file", "fiona", "drvsupport", "supported_drivers">>,
               Str("LIBKML"), Str("rw")) >>

Cell_e58bade8 ==
    << SetItem(<<"gpd", "io", "file", "fiona", "drvsupport", "supported_drivers">>,
               Str("KML"), Str("rw")) >>

Cell_e23ea255 ==
    << Assign("gdf_kml", <<"gpd", "read_file">>,
              << P(Str(KmlPath)), K("driver", Str("KML")) >>),
       CallExpr(<<"gdf_kml", "plot">>, << K("column", Str("Name")) >>) >>

GeoCells ==
    << Cell_1db2746e, Cell_8ae16e96, Cell_5b16e827, Cell_064e516b, Cell_ab1525c9,
       Cell_719de7cd, Cell_2202346a, Cell_0fb03212, Cell_2ada92fa, Cell_826722d1,
       Cell_bf4a382a, Cell_53939654, Cell_66376b10, Cell_11a12284, Cell_a7c994ec,
       Cell_6daff34d, Cell_5e9afb41, Cell_7ecf60e6, Cell_a3a00fbd, Cell_1b074272,
       Cell_b47d23d2, Cell_c1c5e436, Cell_71e07c36, Cell_e58bade8, Cell_e23ea255 >>

-----------------------------------------------------------------------------
(* The code cells of src/lessons/1b-...-ArcGIS-API.ipynb, in document      *)
(* order.                                                                  *)

Cell_a5cf79be == << Import("pandas", "pd"), FromImport("arcgis", "GeoAccessor") >>

Cell_7849d27c == << Assign("df", <<"pd", "read_csv">>, <<P(Str(CsvPath))>>) >>

Cell_0888b590 == << Help(<<"GeoAccessor", "from_xy">>) >>

Cell_e6c3bce6 ==
    << Assign("sdf", <<"GeoAccessor", "from_xy">>,
              << P(Name("df")), K("x_column", Str("Longitude")),
                 K("y_column", Str("Latitude")), K("sr", Num(WGS84)) >>) >>

Cell_2f406e70 == << CallExpr(<<"sdf", "head">>, <<>>) >>

Cell_eeb8e7a1 == << CallExpr(<<"type">>, <<P(Name("sdf"))>>) >>

Cell_fd72f698 == << CallExpr(<<"type">>, <<P(Attr("sdf", "spatial"))>>) >>

Cell_ff373488 == << AttrExpr(<<"sdf", "spatial", "centroid">>) >>

Cell_a7a4f187 == << CallExpr(<<"sdf", "spatial", "plot">>, <<>>) >>

Cell_162bdd83 == << Help(<<"GeoAccessor", "from_featureclass">>) >>

Cell_5b8a3abc ==
    << Assign("sdf_shp", <<"GeoAccessor", "from_featureclass">>, <<P(Str(ShpPath))>>) >>

Cell_20aeb30a == << CallExpr(<<"sdf_shp", "head">>, <<>>) >>

Cell_15364cb2 == << AttrExpr(<<"sdf_shp", "spatial", "sr">>) >>

Cell_ac63ffdc == << CallExpr(<<"sdf_shp", "spatial", "plot">>, <<>>) >>

\* "GeoAccessor." : an attribute reference with the attribute name missing
Cell_9c72dc44 == << Invalid >>

Cell_0f3fd78a == << FromImport("arcgis.features", "FeatureLayer") >>

\* the same cell with the two URLs exchanged
Cell_c1a867a9_swapped ==
    << AssignLit("state_layer_url", Str(CountyLayerUrl)),
       AssignLit("county_layer_url", Str(StateLayerUrl)) >>

Cell_c1a867a9 ==
    << AssignLit("state_layer_url", Str(StateLayerUrl)),
       AssignLit("county_layer_url", Str(CountyLayerUrl)) >>

\* the same cell building the layer from the county URL
Cell_9bbf3f83_county ==
    << Assign("state_layer", <<"FeatureLayer">>, <<P(Name("county_layer_url"))>>),
       CallExpr(<<"type">>, <<P(Name("state_layer"))>>) >>

Cell_9bbf3f83 ==
    << Assign("state_layer", <<"FeatureLayer">>, <<P(Name("state_layer_url"))>>),
       CallExpr(<<"type">>, <<P(Name("state_layer"))>>) >>

Cell_70889187 ==
    << Assign("sdf_state", <<"GeoAccessor", "from_layer">>, <<P(Name("state_layer"))>>) >>

Cell_74040082 == << CallExpr(<<"sdf_state", "info">>, <<>>) >>

Cell_a5cfee73 == << AttrExpr(<<"sdf_state", "spatial", "sr">>) >>

Cell_83c84325 == << CallExpr(<<"sdf_state", "spatial", "plot">>, <<>>) >>

\* the empty cell that ends the notebook
Cell_1bed806d == << >>

ArcCells ==
    << Cell_a5cf79be, Cell_7849d27c, Cell_0888b590, Cell_e6c3bce6, Cell_2f406e70,
       Cell_eeb8e7a1, Cell_fd72f698, Cell_ff373488, Cell_a7a4f187, Cell_162bdd83,
       Cell_5b8a3abc, Cell_20aeb30a, Cell_15364cb2, Cell_ac63ffdc, Cell_9c72dc44,
       Cell_0f3fd78a, Cell_c1a867a9, Cell_9bbf3f83, Cell_70889187, Cell_74040082,
       Cell_a5cfee73, Cell_83c84325, Cell_1bed806d >>

\* the code cells of notebook n
Cells(n) == IF n = "geo" THEN GeoCells ELSE ArcCells

-----------------------------------------------------------------------------
(* Values of the kernel.                                                   *)

ModuleV(name) == [kind |-> "module", name |-> name]
ClassV(name)  == [kind |-> "class", name |-> name]
StrV(s)       == [kind |-> "str", s |-> s]
IntV(n)       == [kind |-> "int", n |-> n]
NoneV         == [kind |-> "none"]
SeriesV(vals) == [kind |-> "Series", vals |-> vals]
PointV(x, y)  == [type |-> "Point", x |-> x, y |-> y]

\* a dataframe: class is "DataFrame" or "GeoDataFrame", geomcol the name of
\* its geometry column ("" when it has none), crs its WKID (0 when none)
FrameV(class, src, cols, rows, geomcol, geom, crs) ==
    [kind |-> "frame", class |-> class, src |-> src, cols |-> cols, rows |-> rows,
     geomcol |-> geomcol, geom |-> geom, crs |-> crs]

NoOutput == [kind |-> "nothing"]

\* no snapshot yet, and the snapshot of a namespace and a driver table
NoSnap == [taken |-> FALSE, ns |-> <<>>, drivers |-> <<>>]
Snapshot(n, drv) == [taken |-> TRUE, ns |-> n, drivers |-> drv]

\* the empty namespace, and binding a name in a namespace
EmptyNs == [x \in {} |-> NoneV]
Bind(n, x, v) == [y \in DOMAIN n \cup {x} |-> IF y = x THEN v ELSE n[y]]

\* the names Python resolves without the namespace
Builtins == {"type"}

-----------------------------------------------------------------------------
(* The external sources.                                                   *)

Paths == {CsvPath, ShpPath, ZipPath, GeoJsonPath, KmlPath}
Urls  == {StateLayerUrl, CountyLayerUrl}

\* the sources a notebook names in a reading call
Sources(n) ==
    IF n = "geo" THEN {CsvPath, ShpPath, ZipPath, GeoJsonPath, KmlPath}
                 ELSE {CsvPath, ShpPath, StateLayerUrl}

\* the coordinates a station of the CSV file may have: <<Longitude, Latitude>>
StationCoords == { <<-78, 35>>, <<-80, 36>> }

StationRow(i, xy) == [ID |-> i, Longitude |-> xy[1], Latitude |-> xy[2]]

CsvContents ==
    UNION { { [i \in 1..len |-> StationRow(i, f[i])] : f \in [1..len -> StationCoords] }
            : len \in 0..MaxRows }

BasinRows == << [Basin |-> "BRD", Name |-> "Broad"], [Basin |-> "CAT", Name |-> "Catawba"] >>
BasinGeom == << [type |-> "Polygon", id |-> 1], [type |-> "Polygon", id |-> 2] >>
StateRows == << [state |-> "North Carolina"] >>
StateGeom == << [type |-> "Polygon", id |-> 3] >>

\* what a source holds when it is there and well-formed
FileData(p, csvRows) ==
    CASE p = CsvPath     -> [format |-> "CSV", cols |-> {"ID", "Longitude", "Latitude"},
                             rows |-> csvRows, geom |-> <<>>, crs |-> 0]
      [] p = ShpPath     -> [format |-> "ESRI Shapefile", cols |-> {"Basin", "Name"},
                             rows |-> BasinRows, geom |-> BasinGeom, crs |-> 3857]
      [] p = ZipPath     -> [format |-> "ESRI Shapefile", cols |-> {"Basin", "Name"},
                             rows |-> BasinRows, geom |-> BasinGeom, crs |-> 3857]
      [] p = GeoJsonPath -> [format |-> "GeoJSON", cols |-> {"Basin", "Name"},
                             rows |-> BasinRows, geom |-> BasinGeom, crs |-> 4326]
      [] p = KmlPath     -> [format |-> "KML", cols |-> {"Name", "Description"},
                             rows |-> BasinRows, geom |-> BasinGeom, crs |-> 4326]
      [] OTHER           -> [format |-> "FeatureService", cols |-> {"state"},
                             rows |-> StateRows, geom |-> StateGeom, crs |-> 32119]

\* a source with its status: "ok", "missing" or "malformed"
Entry(status, data) ==
    [status |-> status, format |-> data.format, cols |-> data.cols,
     rows |-> data.rows, geom |-> data.geom, crs |-> data.crs]

StatusOf(store, p) == IF p \in DOMAIN store THEN store[p].status ELSE "missing"

\* the driver table of a fresh kernel: KML is not in it
DefaultDrivers ==
    [d \in {"ESRI Shapefile", "GeoJSON", "GPKG", "OpenFileGDB"} |->
        IF d = "OpenFileGDB" THEN "r" ELSE "raw"]

-----------------------------------------------------------------------------
(* The library calls of the cells.  A call returns [exc, val]: the name    *)
(* of the exception it raises ("" when it returns) and its value.          *)

Return(v)  == [exc |-> "", val |-> v]
Raise(exc) == [exc |-> exc, val |-> NoneV]

\* df[c]
getitem(df, c) ==
    IF df.kind = "frame" /\ c \in df.cols
    THEN Return(SeriesV([i \in 1..Len(df.rows) |-> df.rows[i][c]]))
    ELSE Raise("KeyError")

\* pd.read_csv(filepath_or_buffer)
read_csv(filepath_or_buffer, dsk) ==
    CASE filepath_or_buffer.kind # "str" -> Raise("ValueError")
      [] StatusOf(dsk, filepath_or_buffer.s) = "missing" -> Raise("FileNotFoundError")
      [] StatusOf(dsk, filepath_or_buffer.s) = "malformed" -> Raise("ParserError")
      [] OTHER ->
            LET f == dsk[filepath_or_buffer.s]
            IN  Return(FrameV("DataFrame", filepath_or_buffer.s, f.cols, f.rows, "", <<>>, 0))

\* gpd.points_from_xy(x, y)
points_from_xy(x, y) ==
    IF x.kind # "Series" \/ y.kind # "Series" THEN Raise("TypeError")
    ELSE IF Len(x.vals) # Len(y.vals) THEN Raise("ValueError")
    ELSE Return([kind |-> "GeometryArray",
                 geoms |-> [i \in 1..Len(x.vals) |-> PointV(x.vals[i], y.vals[i])]])

\* gpd.GeoDataFrame(data, geometry, crs)
GeoDataFrame(data, geometry, crs) ==
    IF data.kind # "frame" \/ geometry.kind # "GeometryArray" THEN Raise("TypeError")
    ELSE IF Len(geometry.geoms) # Len(data.rows) THEN Raise("ValueError")
    ELSE Return(FrameV("GeoDataFrame", data.src, data.cols \cup {"geometry"}, data.rows,
                       "geometry", geometry.geoms,
                       IF crs.kind = "int" THEN crs.n ELSE 0))

\* gpd.read_file(filename, driver): fiona opens the file with the named
\* driver, or with the driver of the file's format when none is named; the
\* driver has to be in the driver table
read_file(filename, driver, drv, dsk) ==
    IF filename.kind # "str" THEN Raise("TypeError")
    ELSE IF StatusOf(dsk, filename.s) # "ok" THEN Raise("DriverError")
    ELSE LET f    == dsk[filename.s]
             used == IF driver.kind = "str" THEN driver.s ELSE f.format
         IN  IF used \notin DOMAIN drv \/ used # f.format
             THEN Raise("DriverError")
             ELSE Return(FrameV("GeoDataFrame", filename.s, f.cols \cup {"geometry"},
                                f.rows, "geometry", f.geom, f.crs))

\* DataFrame.to_csv(path_or_buf): with a path the frame is written to the
\* file and None is returned; with no argument the text is returned; any
\* other object is rejected before anything is written
to_csv(self, path_or_buf, dsk) ==
    CASE path_or_buf.kind = "str" ->
            [exc |-> "", val |-> NoneV,
             disk |-> [p \in DOMAIN dsk \cup {path_or_buf.s} |->
                          IF p = path_or_buf.s
                          THEN [status |-> "ok", format |-> "CSV", cols |-> self.cols,
                                rows |-> self.rows, geom |-> <<>>, crs |-> 0]
                          ELSE dsk[p]]]
      [] path_or_buf.kind = "none" ->
            [exc |-> "", val |-> StrV("csv text"), disk |-> dsk]
      [] OTHER ->
            [exc |-> "ValueError", val |-> NoneV, disk |-> dsk]

\* GeoAccessor.from_xy(df, x_column, y_column, sr)
from_xy(df, x_column, y_column, sr) ==
    IF df.kind # "frame" \/ x_column.kind # "str" \/ y_column.kind # "str"
    THEN Raise("TypeError")
    ELSE IF x_column.s \notin df.cols \/ y_column.s \notin df.cols THEN Raise("KeyError")
    ELSE Return(FrameV("DataFrame", df.src, df.cols \cup {"SHAPE"}, df.rows, "SHAPE",
                       [i \in 1..Len(df.rows) |->
                           PointV(df.rows[i][x_column.s], df.rows[i][y_column.s])],
                       IF sr.kind = "int" THEN sr.n ELSE WGS84))

\* GeoAccessor.from_featureclass(location)
from_featureclass(location, dsk) ==
    IF location.kind # "str" THEN Raise("TypeError")
    ELSE IF StatusOf(dsk, location.s) # "ok" THEN Raise("Exception")
    ELSE LET f == dsk[location.s]
         IN  Return(FrameV("DataFrame", location.s, f.cols \cup {"SHAPE"}, f.rows,
                           "SHAPE", f.geom, f.crs))

\* FeatureLayer(url): the layer object is built without contacting the service
FeatureLayer(url) ==
    IF url.kind # "str" THEN Raise("TypeError")
    ELSE Return([kind |-> "FeatureLayer", url |-> url.s])

\* GeoAccessor.from_layer(layer): queries the layer's URL
from_layer(layer, svc) ==
    IF layer.kind # "FeatureLayer" THEN Raise("TypeError")
    ELSE IF StatusOf(svc, layer.url) = "missing" THEN Raise("ConnectionError")
    ELSE IF StatusOf(svc, layer.url) = "malformed" THEN Raise("Exception")
    ELSE LET f == svc[layer.url]
         IN  Return(FrameV("DataFrame", layer.url, f.cols \cup {"SHAPE"}, f.rows,
                           "SHAPE", f.geom, f.crs))

-----------------------------------------------------------------------------
(* Evaluating a statement.                                                 *)

\* the names an expression, a statement, a cell reads from the namespace
ExprNames(e) == IF e.e \in {"name", "col", "attr"} THEN {e.s} ELSE {}

NamesRead(st) ==
    (IF st.op \in {"assign", "expr", "help", "setitem"} /\ st.fn # <<>>
        /\ st.fn[1] \notin Builtins
     THEN {st.fn[1]} ELSE {})
    \cup UNION { ExprNames(st.args[i].e) : i \in 1..Len(st.args) }

\* the expression bound to parameter kw, which is parameter number pos
Arg(args, kw, pos) ==
    IF \E i \in 1..Len(args) : args[i].kw = kw
    THEN args[CHOOSE i \in 1..Len(args) : args[i].kw = kw].e
    ELSE IF pos \in 1..Len(args) /\ args[pos].kw = "" THEN args[pos].e
    ELSE NoneE

Eval(e, n) ==
    CASE e.e = "str"  -> Return(StrV(e.s))
      [] e.e = "int"  -> Return(IntV(e.n))
      [] e.e = "name" -> Return(n[e.s])
      [] e.e = "col"  -> getitem(n[e.s], e.c)
      [] e.e = "attr" -> Return([kind |-> "accessor", name |-> e.c, of |-> e.s])
      [] OTHER        -> Return(NoneV)

\* the exception raised while the arguments are evaluated, "" when none is
ArgExc(st, n) ==
    IF \E i \in 1..Len(st.args) : Eval(st.args[i].e, n).exc # ""
    THEN Eval(st.args[CHOOSE i \in 1..Len(st.args) :
                        /\ Eval(st.args[i].e, n).exc # ""
                        /\ \A j \in 1..(i-1) : Eval(st.args[j].e, n).exc = ""].e, n).exc
    ELSE ""

ArgVal(st, kw, pos, n) == Eval(Arg(st.args, kw, pos), n).val

TypeName(v) ==
    CASE v.kind = "module" -> v.name
      [] v.kind = "class"  -> v.name
      [] v.kind = "frame"  -> v.class
      [] v.kind = "accessor" -> "GeoAccessor"
      [] OTHER             -> v.kind

\* what the dotted name of a statement denotes: the type of the object the
\* first name is bound to, followed by the attributes
Callee(st, n) ==
    IF st.fn[1] \in Builtins THEN <<"builtins">> \o st.fn
    ELSE <<TypeName(n[st.fn[1]])>> \o Tail(st.fn)

\* the attribute chains that lead to fiona's driver table
DriverTablePaths ==
    { <<"fiona", "supported_drivers">>,
      <<"fiona", "drvsupport", "supported_drivers">>,
      <<"geopandas", "io", "file", "fiona", "drvsupport", "supported_drivers">> }

\* the well-known id under which ArcGIS knows the coordinate system with
\* EPSG code epsg: Web Mercator is 102100 there, with 3857 as its latest id;
\* the State Plane system of the state layer has one id, 32119, for both
EsriWkid(epsg) == IF epsg = 3857 THEN 102100 ELSE epsg

\* an inspection or plot of dataframe v: head(), info(), crs, plot(), ...
Inspect(v, attrs, column) ==
    CASE attrs = <<"head">> -> Return([kind |-> "table", rows |-> v.rows])
      [] attrs = <<"info">> -> Return([kind |-> "text", cols |-> v.cols])
      [] attrs = <<"crs">> /\ v.class = "GeoDataFrame" ->
            Return([kind |-> "CRS", epsg |-> v.crs])
      [] attrs = <<"crs", "to_epsg">> /\ v.class = "GeoDataFrame" -> Return(IntV(v.crs))
      [] attrs = <<"crs", "to_string">> /\ v.class = "GeoDataFrame" ->
            Return([kind |-> "CRS string", epsg |-> v.crs])
      [] attrs = <<"plot">> /\ v.class = "GeoDataFrame" ->
            IF column.kind = "str" /\ column.s \notin v.cols THEN Raise("ValueError")
            ELSE Return([kind |-> "figure", of |-> v.src])
      [] attrs = <<"spatial", "centroid">> /\ v.geomcol = "SHAPE" ->
            Return([kind |-> "centroid", of |-> v.src])
      [] attrs = <<"spatial", "sr">> /\ v.geomcol = "SHAPE" ->
            Return([kind |-> "SpatialReference",
                    wkid |-> EsriWkid(v.crs), latestWkid |-> v.crs])
      [] attrs = <<"spatial", "plot">> /\ v.geomcol = "SHAPE" ->
            Return([kind |-> "MapView", of |-> v.src])
      [] OTHER -> Raise("AttributeError")

\* the effects of a statement: the exception it raises, its value, the disk
\* after it, and the sources it touched
Effect(res, dsk, rd, ly, rq) ==
    [exc |-> res.exc, val |-> res.val, disk |-> dsk,
     reads |-> rd, layers |-> ly, requests |-> rq]

\* calling (or, for an attribute chain, reading) what the statement names
Apply(st, n, drv, dsk, svc) ==
    LET callee == Callee(st, n)
        A(kw, pos) == ArgVal(st, kw, pos, n)
        recv == IF st.fn[1] \in Builtins THEN NoneV ELSE n[st.fn[1]]
    IN  CASE callee = <<"pandas", "read_csv">> /\ st.call ->
                Effect(read_csv(A("filepath_or_buffer", 1), dsk), dsk,
                       IF A("filepath_or_buffer", 1).kind = "str"
                       THEN {A("filepath_or_buffer", 1).s} ELSE {}, {}, {})
          [] callee = <<"geopandas", "points_from_xy">> /\ st.call ->
                Effect(points_from_xy(A("x", 1), A("y", 2)), dsk, {}, {}, {})
          [] callee = <<"geopandas", "GeoDataFrame">> /\ st.call ->
                Effect(GeoDataFrame(A("data", 1), A("geometry", 0), A("crs", 0)),
                       dsk, {}, {}, {})
          [] callee = <<"geopandas", "read_file">> /\ st.call ->
                Effect(read_file(A("filename", 1), A("driver", 0), drv, dsk), dsk,
                       IF A("filename", 1).kind = "str" THEN {A("filename", 1).s} ELSE {},
                       {}, {})
          [] callee \in { <<"DataFrame", "to_csv">>, <<"GeoDataFrame", "to_csv">> }
             /\ st.call ->
                LET w == to_csv(recv, A("path_or_buf", 1), dsk)
                IN  Effect(w, w.disk, {}, {}, {})
          [] callee = <<"GeoAccessor", "from_xy">> /\ st.call ->
                Effect(from_xy(A("df", 1), A("x_column", 2), A("y_column", 3), A("sr", 4)),
                       dsk, {}, {}, {})
          [] callee = <<"GeoAccessor", "from_featureclass">> /\ st.call ->
                Effect(from_featureclass(A("location", 1), dsk), dsk,
                       IF A("location", 1).kind = "str" THEN {A("location", 1).s} ELSE {},
                       {}, {})
          [] callee = <<"FeatureLayer">> /\ st.call ->
                Effect(FeatureLayer(A("url", 1)), dsk, {},
                       IF A("url", 1).kind = "str" THEN {A("url", 1).s} ELSE {}, {})
          [] callee = <<"GeoAccessor", "from_layer">> /\ st.call ->
                Effect(from_layer(A("layer", 1), svc), dsk, {}, {},
                       IF A("layer", 1).kind = "FeatureLayer"
                       THEN {A("layer", 1).url} ELSE {})
          [] callee = <<"builtins", "type">> /\ st.call ->
                Effect(Return(ClassV(TypeName(A("object", 1)))), dsk, {}, {}, {})
          [] callee \in DriverTablePaths /\ ~st.call ->
                Effect(Return([kind |-> "dict", d |-> drv]), dsk, {}, {}, {})
          [] recv.kind = "frame" ->
                Effect(Inspect(recv, Tail(callee), A("column", 0)), dsk, {}, {}, {})
          [] OTHER -> Effect(Raise("AttributeError"), dsk, {}, {}, {})

\* the outcome of an assignment or expression statement in namespace n
Run(st, n, drv, dsk, svc) ==
    IF ~(NamesRead(st) \subseteq DOMAIN n)
    THEN Effect(Raise("NameError"), dsk, {}, {}, {})
    ELSE IF ArgExc(st, n) # ""
    THEN Effect(Raise(ArgExc(st, n)), dsk, {}, {}, {})
    ELSE IF st.fn = <<>>
    THEN Effect(Eval(st.args[1].e, n), dsk, {}, {}, {})
    ELSE Apply(st, n, drv, dsk, svc)

\* GeoAccessor.from_xy(df, ...) and gpd.GeoDataFrame(data=df, geometry=...)
\* build the geometry column on a frame.  Whether that frame is the caller's
\* df or a copy of it depends on the installed arcgis and pandas; where it is
\* the caller's, df shows the new column too (and from_xy returns df itself).
\* The variable of statement st whose frame the call extends:
Extended(st, n) ==
    LET callee == Callee(st, n)
        a == CASE callee = <<"GeoAccessor", "from_xy">>     -> Arg(st.args, "df", 1)
               [] callee = <<"geopandas", "GeoDataFrame">>  -> Arg(st.args, "data", 1)
               [] OTHER                                      -> NoneE
    IN  IF st.call /\ a.e = "name" THEN {a.s} ELSE {}

\* the namespace after statement st has returned val, before val is bound
InPlace(st, n, val) ==
    IF inplace /\ st.fn # <<>>
    THEN [x \in DOMAIN n |->
            IF x \in Extended(st, n)
            THEN IF Callee(st, n) = <<"GeoAccessor", "from_xy">>
                 THEN val
                 ELSE [n[x] EXCEPT !.cols = val.cols]
            ELSE n[x]]
    ELSE n

\* what "import" binds
Imported(st) == IF Len(st.fn) = 1 THEN ModuleV(st.fn[1]) ELSE ClassV(st.fn[2])

-----------------------------------------------------------------------------
(* The kernel.                                                             *)

NCells == Len(Cells(nb))

\* the statement cell c is about to execute
Current(c) == Cells(nb)[c][active[c]]

\* a cell with source text that does not parse runs none of its statements
Parses(c) == \A i \in 1..Len(Cells(nb)[c]) : Cells(nb)[c][i].op # "invalid"

\* a code cell without source text: the kernel executes nothing for it and
\* does not count it
Blank(c) == Cells(nb)[c] = <<>>

\* the code cells the kernel executes
CodeCells == { c \in 1..NCells : ~Blank(c) }

AtStatement(c, op) ==
    /\ c \in DOMAIN active
    /\ Parses(c)
    /\ active[c] \in 1..Len(Cells(nb)[c])
    /\ Current(c).op = op

Without(f, c) == [x \in DOMAIN f \ {c} |-> f[x]]

\* a kernel that goes on with the next statement after an exception
Proceed_ignore(c, exc) ==
    /\ active' = [active EXCEPT ![c] = @ + 1]
    /\ UNCHANGED <<lastExc, halted>>

\* statement done: on to the next one.  Exception: the cell ends there, and
\* under Run All the cells still queued are dropped
Proceed(c, exc) ==
    IF exc = ""
    THEN /\ active' = [active EXCEPT ![c] = @ + 1]
         /\ UNCHANGED <<lastExc, halted>>
    ELSE /\ active' = Without(active, c)
         /\ lastExc' = [lastExc EXCEPT ![c] = exc]
         /\ halted' = (halted \/ mode = "runall")

\* The notebooks hold no scheduling code: a cell is a list of statements, and
\* executing the cells is the work of the IPython kernel named in the
\* notebook's metadata (kernelspec python3).  That kernel handles one
\* execution request at a time, so the next cell of the document is taken
\* once the kernel is idle; a cell without source text is passed over:
\* nothing is executed or counted
StartCell ==
    /\ active = <<>>
    /\ ~halted
    /\ pc \in 1..NCells
    /\ pc' = pc + 1
    /\ IF Blank(pc)
       THEN UNCHANGED <<active, execCount, lastExc, display>>
       ELSE /\ active' = [c \in {pc} |-> 1]
            /\ execCount' = [execCount EXCEPT ![pc] = @ + 1]
            /\ lastExc' = [lastExc EXCEPT ![pc] = ""]
            /\ display' = [display EXCEPT ![pc] = NoOutput]
    /\ UNCHANGED <<nb, mode, inplace, snap, halted, ns, drivers, disk, service, reads, layers, requests, binder>>

\* the cell's text is no Python: SyntaxError before any statement runs
RaiseSyntaxError(c) ==
    /\ c \in DOMAIN active
    /\ ~Parses(c)
    /\ Proceed(c, "SyntaxError")
    /\ UNCHANGED <<nb, mode, inplace, snap, pc, ns, drivers, disk, service, execCount, display,
                   reads, layers, requests, binder>>

\* import module as name / from module import name
ExecImport(c) ==
    /\ AtStatement(c, "import")
    /\ ns' = Bind(ns, Current(c).target, Imported(Current(c)))
    /\ binder' = Bind(binder, Current(c).target, <<c, active[c]>>)
    /\ Proceed(c, "")
    /\ UNCHANGED <<nb, mode, inplace, snap, pc, drivers, disk, service, execCount, display,
                   reads, layers, requests>>

\* an assignment that binds its target to None when the call raises
ExecAssign_bindNone(c) ==
    /\ AtStatement(c, "assign")
    /\ LET r == Run(Current(c), ns, drivers, disk, service)
       IN  /\ ns' = Bind(ns, Current(c).target, r.val)
           /\ binder' = Bind(binder, Current(c).target, <<c, active[c]>>)
           /\ disk' = r.disk
           /\ reads' = reads \cup r.reads
           /\ layers' = layers \cup r.layers
           /\ requests' = requests \cup r.requests
           /\ Proceed(c, r.exc)
    /\ UNCHANGED <<nb, mode, inplace, snap, pc, drivers, service, execCount, display>>

\* an assignment that leaves a target alone that is bound already
ExecAssign_keepFirst(c) ==
    /\ AtStatement(c, "assign")
    /\ LET r == Run(Current(c), ns, drivers, disk, service)
           fresh == r.exc = "" /\ Current(c).target \notin DOMAIN ns
       IN  /\ ns' = IF fresh THEN Bind(ns, Current(c).target, r.val) ELSE ns
           /\ binder' = IF fresh
                        THEN Bind(binder, Current(c).target, <<c, active[c]>>)
                        ELSE binder
           /\ disk' = r.disk
           /\ reads' = reads \cup r.reads
           /\ layers' = layers \cup r.layers
           /\ requests' = requests \cup r.requests
           /\ Proceed(c, r.exc)
    /\ UNCHANGED <<nb, mode, inplace, snap, pc, drivers, service, execCount, display>>

\* target = fn(args): the target is bound only when the call returns
ExecAssign(c) ==
    /\ AtStatement(c, "assign")
    /\ LET r == Run(Current(c), ns, drivers, disk, service)
       IN  /\ ns' = IF r.exc = ""
                     THEN Bind(InPlace(Current(c), ns, r.val), Current(c).target, r.val)
                     ELSE ns
           /\ binder' = IF r.exc = ""
                        THEN Bind(binder, Current(c).target, <<c, active[c]>>)
                        ELSE binder
           /\ disk' = r.disk
           /\ reads' = reads \cup r.reads
           /\ layers' = layers \cup r.layers
           /\ requests' = requests \cup r.requests
           /\ Proceed(c, r.exc)
    /\ UNCHANGED <<nb, mode, inplace, snap, pc, drivers, service, execCount, display>>

\* an expression statement: its value is displayed
ExecExpr(c) ==
    /\ AtStatement(c, "expr")
    /\ LET r == Run(Current(c), ns, drivers, disk, service)
       IN  /\ display' = IF r.exc = "" THEN [display EXCEPT ![c] = r.val] ELSE display
           /\ disk' = r.disk
           /\ reads' = reads \cup r.reads
           /\ layers' = layers \cup r.layers
           /\ requests' = requests \cup r.requests
           /\ Proceed(c, r.exc)
    /\ UNCHANGED <<nb, mode, inplace, snap, pc, ns, drivers, service, execCount, binder>>

\* name? : IPython shows the documentation, or "Object not found"; no error
ExecHelp(c) ==
    /\ AtStatement(c, "help")
    /\ display' = [display EXCEPT ![c] =
                     IF NamesRead(Current(c)) \subseteq DOMAIN ns
                     THEN [kind |-> "help", of |-> Current(c).fn]
                     ELSE [kind |-> "not found", of |-> Current(c).fn]]
    /\ Proceed(c, "")
    /\ UNCHANGED <<nb, mode, inplace, snap, pc, ns, drivers, disk, service, execCount,
                   reads, layers, requests, binder>>

\* an item assignment that leaves the new entry alone in the table
ExecSetItem_replace(c) ==
    /\ AtStatement(c, "setitem")
    /\ LET st  == Current(c)
           exc == IF ~(NamesRead(st) \subseteq DOMAIN ns) THEN "NameError"
                  ELSE IF Callee(st, ns) \notin DriverTablePaths THEN "AttributeError"
                  ELSE ""
       IN  /\ drivers' = IF exc = ""
                         THEN [k \in {Eval(st.args[1].e, ns).val.s} |->
                                  Eval(st.args[2].e, ns).val.s]
                         ELSE drivers
           /\ Proceed(c, exc)
    /\ UNCHANGED <<nb, mode, inplace, snap, pc, ns, disk, service, execCount, display,
                   reads, layers, requests, binder>>

\* fn[key] = value on the driver table
ExecSetItem(c) ==
    /\ AtStatement(c, "setitem")
    /\ LET st  == Current(c)
           exc == IF ~(NamesRead(st) \subseteq DOMAIN ns) THEN "NameError"
                  ELSE IF Callee(st, ns) \notin DriverTablePaths THEN "AttributeError"
                  ELSE ""
       IN  /\ drivers' = IF exc = ""
                         THEN Bind(drivers, Eval(st.args[1].e, ns).val.s,
                                   Eval(st.args[2].e, ns).val.s)
                         ELSE drivers
           /\ Proceed(c, exc)
    /\ UNCHANGED <<nb, mode, inplace, snap, pc, ns, disk, service, execCount, display,
                   reads, layers, requests, binder>>

\* the last statement has run: the kernel is idle again
FinishCell(c) ==
    /\ c \in DOMAIN active
    /\ Parses(c)
    /\ active[c] > Len(Cells(nb)[c])
    /\ active' = Without(active, c)
    /\ UNCHANGED <<nb, mode, inplace, snap, pc, halted, ns, drivers, disk, service, execCount,
                   lastExc, display, reads, layers, requests, binder>>

-----------------------------------------------------------------------------
(* A fresh kernel, with the external sources in one of their states.       *)

Faults(n) ==
    UNION { [b -> {"missing", "malformed"}] :
            b \in { x \in SUBSET Sources(n) : Cardinality(x) <= MaxBroken } }

Init ==
    /\ nb \in {"geo", "arc"}
    /\ mode \in {"runall", "step"}
    /\ pc = 1
    /\ active = <<>>
    /\ halted = FALSE
    /\ ns = EmptyNs
    /\ binder = [x \in {} |-> <<0, 0>>]
    /\ drivers = DefaultDrivers
    /\ \E csvRows \in CsvContents, fault \in Faults(nb) :
          /\ disk = [p \in Paths |->
                        Entry(IF p \in DOMAIN fault THEN fault[p] ELSE "ok",
                              FileData(p, csvRows))]
          /\ service = [u \in Urls |->
                           Entry(IF u \in DOMAIN fault THEN fault[u] ELSE "ok",
                                 FileData(u, csvRows))]
    /\ execCount = [c \in 1..NCells |-> 0]
    /\ lastExc = [c \in 1..NCells |-> ""]
    /\ display = [c \in 1..NCells |-> NoOutput]
    /\ reads = {}
    /\ layers = {}
    /\ requests = {}
    /\ inplace \in BOOLEAN
    /\ snap = NoSnap

Next ==
    \/ StartCell
    \/ \E c \in DOMAIN active : RaiseSyntaxError(c)
    \/ \E c \in DOMAIN active : ExecImport(c)
    \/ \E c \in DOMAIN active : ExecAssign(c)
    \/ \E c \in DOMAIN active : ExecExpr(c)
    \/ \E c \in DOMAIN active : ExecHelp(c)
    \/ \E c \in DOMAIN active : ExecSetItem(c)
    \/ \E c \in DOMAIN active : FinishCell(c)

Spec == Init /\ [][Next]_vars

-----------------------------------------------------------------------------
(* A session in one kernel that goes beyond one pass over the notebook:    *)
(* after a complete pass cell by cell the user executes a single cell      *)
(* again, or the whole notebook again; or, in a fresh kernel, the user     *)
(* executes the cells by hand in any order.                                *)

RECURSIVE SumTo(_, _)
SumTo(f, k) == IF k = 0 THEN 0 ELSE f[k] + SumTo(f, k - 1)

\* the number of cell executions the kernel has counted so far
Submitted == SumTo(execCount, NCells)

\* the pass in document order is complete and the kernel is idle
PassOver == mode = "step" /\ active = <<>> /\ pc > NCells

\* the user executes cell c once more (nothing happens for a cell without
\* source text)
StartAgain(c) ==
    /\ PassOver
    /\ Submitted < Cardinality(CodeCells) + MaxAgain
    /\ IF Blank(c)
       THEN UNCHANGED <<active, execCount, lastExc, display>>
       ELSE /\ active' = [d \in {c} |-> 1]
            /\ execCount' = [execCount EXCEPT ![c] = @ + 1]
            /\ lastExc' = [lastExc EXCEPT ![c] = ""]
            /\ display' = [display EXCEPT ![c] = NoOutput]
    /\ snap' = IF snap.taken THEN snap ELSE Snapshot(ns, drivers)
    /\ UNCHANGED <<nb, mode, inplace, pc, halted, ns, drivers, disk, service,
                   reads, layers, requests, binder>>

\* the user runs the whole notebook again, from the first cell
RunAgain ==
    /\ PassOver
    /\ Submitted = Cardinality(CodeCells)
    /\ pc' = 1
    /\ snap' = Snapshot(ns, drivers)
    /\ UNCHANGED <<nb, mode, inplace, active, halted, ns, drivers, disk, service,
                   execCount, lastExc, display, reads, layers, requests, binder>>

\* the user executes cell c, whatever has been executed before (nothing
\* happens for a cell without source text)
StartAny(c) ==
    /\ mode = "free"
    /\ active = <<>>
    /\ Submitted < MaxFree
    /\ IF Blank(c)
       THEN UNCHANGED <<active, execCount, lastExc, display>>
       ELSE /\ active' = [d \in {c} |-> 1]
            /\ execCount' = [execCount EXCEPT ![c] = @ + 1]
            /\ lastExc' = [lastExc EXCEPT ![c] = ""]
            /\ display' = [display EXCEPT ![c] = NoOutput]
    /\ UNCHANGED <<nb, mode, inplace, snap, pc, halted, ns, drivers, disk, service,
                   reads, layers, requests, binder>>

\* the CSV file of a session
SessionCsv ==
    [i \in 1..MaxRows |-> StationRow(i, IF i % 2 = 1 THEN <<-78, 35>> ELSE <<-80, 36>>)]

\* a fresh kernel with every source there and well-formed
InitSession ==
    /\ nb \in {"geo", "arc"}
    /\ mode \in {"step", "free"}
    /\ pc = 1
    /\ active = <<>>
    /\ halted = FALSE
    /\ ns = EmptyNs
    /\ binder = [x \in {} |-> <<0, 0>>]
    /\ drivers = DefaultDrivers
    /\ disk = [p \in Paths |-> Entry("ok", FileData(p, SessionCsv))]
    /\ service = [u \in Urls |-> Entry("ok", FileData(u, SessionCsv))]
    /\ execCount = [c \in 1..NCells |-> 0]
    /\ lastExc = [c \in 1..NCells |-> ""]
    /\ display = [c \in 1..NCells |-> NoOutput]
    /\ reads = {}
    /\ layers = {}
    /\ requests = {}
    /\ inplace \in BOOLEAN
    /\ snap = NoSnap

NextSession ==
    \/ (mode = "step" /\ StartCell)
    \/ RunAgain
    \/ \E c \in 1..NCells : StartAgain(c)
    \/ \E c \in 1..NCells : StartAny(c)
    \/ \E c \in DOMAIN active : RaiseSyntaxError(c)
    \/ \E c \in DOMAIN active : ExecImport(c)
    \/ \E c \in DOMAIN active : ExecAssign(c)
    \/ \E c \in DOMAIN active : ExecExpr(c)
    \/ \E c \in DOMAIN active : ExecHelp(c)
    \/ \E c \in DOMAIN active : ExecSetItem(c)
    \/ \E c \in DOMAIN active : FinishCell(c)

SpecSession == InitSession /\ [][NextSession]_vars

-----------------------------------------------------------------------------
(* Vocabulary of the properties.                                           *)

\* the position in its notebook of a cell that occurs in it once
Idx(cell) == CHOOSE i \in 1..Len(Cells(nb)) : Cells(nb)[i] = cell

\* cell c has been executed and is over
Done(c) == execCount[c] > 0 /\ c \notin DOMAIN active
\* ... and ended without an exception
Succeeded(c) == Done(c) /\ lastExc[c] = ""

\* every external source is there and well-formed
AllSourcesOk ==
    /\ \A p \in Paths : StatusOf(disk, p) = "ok"
    /\ \A u \in Urls : StatusOf(service, u) = "ok"

\* the kernel has nothing left to do
RunOver == active = <<>> /\ (halted \/ pc > NCells)

Bound(x) == x \in DOMAIN ns

-----------------------------------------------------------------------------
(* C1.  After the cell "#Project to UTM Zone 17N" has executed, gdf_utm is *)
(* a geodataframe with the rows of gdf_csv and CRS 32617, and gdf_csv      *)
(* still has CRS 4326.                                                     *)
(* The cell calls to_csv where to_crs is meant: the call raises and        *)
(* gdf_utm is never bound, so the statement is violated.                   *)
C1_ProjectedToUTM ==
    (nb = "geo" /\ AllSourcesOk /\ Done(Idx(Cell_53939654))) =>
        /\ Bound("gdf_utm")
        /\ ns["gdf_utm"].kind = "frame"
        /\ ns["gdf_utm"].class = "GeoDataFrame"
        /\ ns["gdf_utm"].crs = UTM17N
        /\ ns["gdf_utm"].rows = ns["gdf_csv"].rows
        /\ ns["gdf_csv"].crs = WGS84

-----------------------------------------------------------------------------
(* C2.  No cell creates, writes or changes a file on disk or the data of   *)
(* the remote service: the disk and the service are the same before and    *)
(* after every step.  (The cells do change the kernel namespace, the       *)
(* display and fiona's in-memory driver table.)                            *)
C2_NoPersistedState == [][disk' = disk /\ service' = service]_vars

\* C2 as stated: namespace bindings and display output are the only effects
\* of a cell, so the driver table never changes either.  Violated by the
\* cell that enables the KML driver.
C2_OnlyBindingsAndDisplay ==
    [][disk' = disk /\ service' = service /\ drivers' = drivers]_vars

\* the to_csv cell has run, the KML driver is registered "rw" and the KML
\* file has been read
C2_Witness ==
    /\ nb = "geo"
    /\ Done(Idx(Cell_53939654))
    /\ Succeeded(Idx(Cell_e23ea255))
    /\ "KML" \in DOMAIN drivers

-----------------------------------------------------------------------------
(* C3.  Every path handed to a reading call is one of the five files       *)
(* NC_Charging_Stations.csv, Major_Basins.shp, Major_River_Basins.zip,     *)
(* Major_River_Basins.geojson, Major_River_Basins.kml, the only URL handed *)
(* to FeatureLayer is the state layer URL, and once every cell has run the *)
(* notebook has read exactly its sources.                                  *)
C3_FiveFilesOneUrl ==
    /\ reads \subseteq {CsvPath, ShpPath, ZipPath, GeoJsonPath, KmlPath}
    /\ layers \subseteq {StateLayerUrl}
    /\ requests \subseteq layers
    /\ (\A c \in CodeCells : Done(c)) =>
          /\ reads \cup layers = Sources(nb)
          /\ nb = "arc" => layers = {StateLayerUrl}

\* C3 as stated: four files, Major_River_Basins.zip not among them.
\* Violated by the cell that reads the zipped shapefile.
C3_FourFilesOneUrl ==
    /\ reads \subseteq {CsvPath, ShpPath, GeoJsonPath, KmlPath}
    /\ Cardinality(layers) <= 1

\* every cell of the GeoPandas notebook has run, the zip file was read
C3_Witness ==
    /\ nb = "geo"
    /\ \A c \in CodeCells : Done(c)
    /\ ZipPath \in reads

-----------------------------------------------------------------------------
(* C4.  In a run of the GeoPandas notebook in document order the KML       *)
(* driver is enabled before it is used: when read_file(..., driver='KML')  *)
(* is called the driver table maps 'KML' to 'rw'; at every point before    *)
(* the enabling cell is executed, also in what the display of              *)
(* fiona.supported_drivers shows, the table has no key 'KML'; and from the *)
(* end of the enabling cell on the table maps 'KML' to 'rw'.               *)
C4_KmlEnabledBeforeUse ==
    nb = "geo" =>
        /\ AtStatement(Idx(Cell_e23ea255), "assign") =>
              ("KML" \in DOMAIN drivers /\ drivers["KML"] = "rw")
        /\ execCount[Idx(Cell_e58bade8)] = 0 => "KML" \notin DOMAIN drivers
        /\ Succeeded(Idx(Cell_e58bade8)) =>
              ("KML" \in DOMAIN drivers /\ drivers["KML"] = "rw")
        /\ display[Idx(Cell_71e07c36)].kind = "dict" =>
              "KML" \notin DOMAIN display[Idx(Cell_71e07c36)].d
        /\ Idx(Cell_71e07c36) < Idx(Cell_e58bade8)
        /\ Idx(Cell_e58bade8) < Idx(Cell_e23ea255)

\* C4 as stated: the key 'KML' is absent at every point of the execution
\* before read_file(..., driver='KML') is called.  Violated between the end
\* of the enabling cell and the call: the key has to be there by then.
C4_KmlAbsentUntilRead ==
    nb = "geo" =>
        /\ AtStatement(Idx(Cell_e23ea255), "assign") =>
              ("KML" \in DOMAIN drivers /\ drivers["KML"] = "rw")
        /\ execCount[Idx(Cell_e23ea255)] = 0 => "KML" \notin DOMAIN drivers
        /\ display[Idx(Cell_71e07c36)].kind = "dict" =>
              "KML" \notin DOMAIN display[Idx(Cell_71e07c36)].d

\* the KML file has been read with the KML driver, after the driver table
\* was displayed
C4_Witness ==
    /\ nb = "geo"
    /\ display[Idx(Cell_71e07c36)].kind = "dict"
    /\ Bound("gdf_kml")
    /\ ns["gdf_kml"].src = KmlPath

-----------------------------------------------------------------------------
(* C5.  A Run All of a notebook whose sources are all there executes every *)
(* code cell exactly once.                                                 *)
(* Violated: the run is aborted at the to_csv cell (GeoPandas) and at the  *)
(* cell "GeoAccessor." (ArcGIS), and the cells after it never run.         *)
C5_EveryCellOnce ==
    (mode = "runall" /\ AllSourcesOk /\ RunOver) =>
        \A c \in CodeCells : execCount[c] = 1

-----------------------------------------------------------------------------
(* C6.  In a Run All, and in any run in document order with all sources    *)
(* there, every name a statement reads has been bound by an import or      *)
(* assignment in an earlier cell or in an earlier statement of the same    *)
(* cell, and every inspection or plot is applied to a variable bound by an *)
(* earlier load or constructor call.                                       *)

\* the active cell whose next statement is an assignment, an expression, a
\* help request or an item assignment
Reading(c) ==
    /\ c \in DOMAIN active
    /\ Parses(c)
    /\ active[c] \in 1..Len(Cells(nb)[c])
    /\ Current(c).op \in {"assign", "expr", "help", "setitem"}

\* <<cell, statement>> a comes before b
Before(a, b) == a[1] < b[1] \/ (a[1] = b[1] /\ a[2] < b[2])

C6_DataFlow ==
    (mode = "runall" \/ AllSourcesOk) =>
        \A c \in DOMAIN active : Reading(c) =>
            \A x \in NamesRead(Current(c)) :
                /\ Bound(x)
                /\ Before(binder[x], <<c, active[c]>>)
                /\ Cells(nb)[binder[x][1]][binder[x][2]].op \in {"import", "assign"}
                /\ (Current(c).op = "expr" /\ ns[x].kind \notin {"module", "class"}) =>
                      /\ Cells(nb)[binder[x][1]][binder[x][2]].op = "assign"
                      /\ Cells(nb)[binder[x][1]][binder[x][2]].call

\* C6 as stated: every name was bound in a strictly earlier cell.  Violated
\* by type(gdf_csv), type(state_layer) and gdf_kml.plot(), which read the
\* variable their own cell has just assigned.
C6_BoundInEarlierCell ==
    (mode = "runall" \/ AllSourcesOk) =>
        \A c \in DOMAIN active : Reading(c) =>
            \A x \in NamesRead(Current(c)) : Bound(x) /\ binder[x][1] < c

\* the last plot of the ArcGIS notebook has shown sdf_state, which came from
\* state_layer, which came from state_layer_url
C6_Witness ==
    /\ nb = "arc"
    /\ Succeeded(Idx(Cell_83c84325))
    /\ display[Idx(Cell_83c84325)].kind = "MapView"
    /\ display[Idx(Cell_83c84325)].of = StateLayerUrl

-----------------------------------------------------------------------------
(* C7.  A cell whose library call raises ends with that exception: none of *)
(* the variables the cell assigns is bound or rebound by it, the cell is   *)
(* not run again, and under Run All no later cell runs.                    *)

\* the variables cell c assigns
Targets(c) ==
    { Cells(nb)[c][i].target : i \in { j \in 1..Len(Cells(nb)[c]) :
                                         Cells(nb)[c][j].op = "assign" } }

LibraryErrors ==
    {"FileNotFoundError", "ParserError", "DriverError", "ConnectionError",
     "Exception", "ValueError", "KeyError", "TypeError"}

C7_NoHandling ==
    \A c \in 1..NCells : lastExc[c] \in LibraryErrors =>
        /\ c \notin DOMAIN active
        /\ execCount[c] = 1
        /\ \A t \in Targets(c) : Bound(t) => binder[t][1] # c
        /\ mode = "runall" =>
              (halted /\ \A d \in (c+1)..NCells : execCount[d] = 0)

\* Run All of the GeoPandas notebook with the CSV file missing: read_csv
\* raised, df is unbound and the run is over
C7_Witness ==
    /\ nb = "geo"
    /\ mode = "runall"
    /\ lastExc[Idx(Cell_8ae16e96)] = "FileNotFoundError"
    /\ ~Bound("df")
    /\ RunOver

-----------------------------------------------------------------------------
(* C8.  The spatial dataframe built from the CSV dataframe (gdf_csv in the *)
(* GeoPandas notebook, sdf in the ArcGIS notebook) has one point per row   *)
(* of df, in row order, with x the row's Longitude and y its Latitude,     *)
(* spatial reference 4326, and every column of df with its values.         *)
IsSpatialFrameOf(g, df) ==
    /\ g.kind = "frame"
    /\ Len(g.geom) = Len(df.rows)
    /\ \A i \in 1..Len(df.rows) :
          /\ g.geom[i].type = "Point"
          /\ g.geom[i].x = df.rows[i].Longitude
          /\ g.geom[i].y = df.rows[i].Latitude
    /\ g.crs = WGS84
    /\ df.cols \subseteq g.cols
    /\ g.rows = df.rows
    /\ df.rows = disk[CsvPath].rows

C8_PointPerRow ==
    /\ (nb = "geo" /\ Bound("gdf_csv")) => IsSpatialFrameOf(ns["gdf_csv"], ns["df"])
    /\ (nb = "arc" /\ Bound("sdf")) => IsSpatialFrameOf(ns["sdf"], ns["df"])

\* sdf has been built from a CSV file of two stations at different places
C8_Witness ==
    /\ nb = "arc"
    /\ Bound("sdf")
    /\ Len(ns["sdf"].geom) > 1
    /\ ns["sdf"].geom[1] # ns["sdf"].geom[2]

-----------------------------------------------------------------------------
(* C9.  That at most one cell executes at a time, and that the namespace   *)
(* and the driver table change only in a step of the executing cell, is a  *)
(* property of the kernel that executes the notebooks and not of the       *)
(* notebooks: no cell starts a thread, a task or a callback, and the only  *)
(* place a cell is started is StartCell (StartAgain, StartAny), whose      *)
(* guard is that the kernel is idle.  A formula stating it would follow    *)
(* from that guard whatever the cells contain, so none is stated here.     *)

-----------------------------------------------------------------------------
(* C10.  A Run All of a notebook whose sources are all there and           *)
(* well-formed ends with every cell, the last one included, executed       *)
(* without an exception.                                                   *)
(* Violated: gdf_csv.to_csv(32617) raises ValueError and "GeoAccessor."    *)
(* is a syntax error; each aborts its run.                                 *)
C10_RunCompletes ==
    (mode = "runall" /\ AllSourcesOk /\ RunOver) =>
        \A c \in CodeCells : Succeeded(c)

-----------------------------------------------------------------------------
(* What the file of the ArcGIS notebook has saved with its code cells.     *)

\* an output of a cell; execution_count is 0 where the output carries none
\* (display_data, stream)
Out(type, count) == [output_type |-> type, execution_count |-> count]

\* "execution_count" of the code cells in document order, 0 for null
ArcExecutionCount ==
    << 1, 2, 3, 5, 6, 7, 8, 9, 11, 12, 13, 16, 17, 19, 0,
       20, 21, 22, 23, 25, 26, 27, 0 >>

\* "outputs" of the code cells in document order
ArcOutputs ==
    << <<>>, <<>>, <<>>, <<>>,
       << Out("execute_result", 6) >>,
       << Out("execute_result", 7) >>,
       << Out("execute_result", 8) >>,
       << Out("execute_result", 9) >>,
       << Out("display_data", 0), Out("display_data", 0), Out("display_data", 0) >>,
       <<>>, <<>>,
       << Out("execute_result", 16) >>,
       << Out("execute_result", 17) >>,
       << Out("display_data", 0), Out("display_data", 0), Out("display_data", 0) >>,
       <<>>,
       <<>>, <<>>,
       << Out("execute_result", 22) >>,
       <<>>,
       << Out("stream", 0) >>,
       << Out("execute_result", 26) >>,
       << Out("display_data", 0), Out("display_data", 0), Out("display_data", 0) >>,
       <<>> >>

\* the saved counts that are not null increase in document order
CountsIncrease ==
    \A i, j \in 1..Len(ArcExecutionCount) :
        (i < j /\ ArcExecutionCount[i] # 0 /\ ArcExecutionCount[j] # 0) =>
            ArcExecutionCount[i] < ArcExecutionCount[j]

\* a cell with a saved output has a count, and its outputs that carry a count
\* carry the cell's
OutputsMatch ==
    \A i \in 1..Len(ArcOutputs) : ArcOutputs[i] # <<>> =>
        /\ ArcExecutionCount[i] # 0
        /\ \A k \in 1..Len(ArcOutputs[i]) :
              ArcOutputs[i][k].output_type = "execute_result" =>
                  ArcOutputs[i][k].execution_count = ArcExecutionCount[i]

\* the code cells with source text that have no saved count
NeverCounted == { i \in 1..Len(ArcCells) : ArcCells[i] # <<>> /\ ArcExecutionCount[i] = 0 }

-----------------------------------------------------------------------------
(* C11.  The saved state of the ArcGIS notebook comes from one pass from   *)
(* top to bottom: the saved execution counts that are not null increase in *)
(* document order, every cell with a saved output has a count equal to the *)
(* count of its output, and every code cell that is not empty has a count. *)
(* Violated: the cell "GeoAccessor." (9c72dc44) has source text and no     *)
(* count; a pass over the notebook executes it (and ends it with a         *)
(* SyntaxError), so the file was not saved from such a pass.               *)
C11_SavedFromOnePass ==
    nb = "arc" =>
        /\ Len(ArcExecutionCount) = NCells
        /\ Len(ArcOutputs) = NCells
        /\ CountsIncrease
        /\ OutputsMatch
        /\ NeverCounted = {}

-----------------------------------------------------------------------------
(* C12.  In the GeoPandas notebook gdf_shp is assigned by two cells, and   *)
(* it holds the result of the assignment that bound it last: when          *)
(* gdf_shp.head(), gdf_shp.crs.to_string() and gdf_shp.plot(column='Basin')*)
(* run in document order after the zipped shapefile has been read, gdf_shp *)
(* is the frame read from Major_River_Basins.zip, and no variable holds    *)
(* the frame read from Major_Basins.shp any more.                          *)

\* the cells that assign variable x
Assigning(x) == { c \in 1..NCells : x \in Targets(c) }

\* the path literal of the read_file statement that bound x last
PathBoundTo(x) == Cells(nb)[binder[x][1]][binder[x][2]].args[1].e.s

C12_MostRecentAssignment ==
    nb = "geo" =>
        /\ Assigning("gdf_shp") = {Idx(Cell_a7c994ec), Idx(Cell_6daff34d)}
        /\ Idx(Cell_a7c994ec) < Idx(Cell_6daff34d)
        /\ Bound("gdf_shp") => ns["gdf_shp"].src = PathBoundTo("gdf_shp")
        /\ \A c \in {Idx(Cell_5e9afb41), Idx(Cell_7ecf60e6), Idx(Cell_a3a00fbd)} :
              (AtStatement(c, "expr") /\ Succeeded(Idx(Cell_6daff34d))) =>
                  /\ Bound("gdf_shp")
                  /\ binder["gdf_shp"] = <<Idx(Cell_6daff34d), 1>>
                  /\ ns["gdf_shp"].src = ZipPath
                  /\ \A x \in DOMAIN ns :
                        ns[x].kind = "frame" => ns[x].src # ShpPath

\* both files have been read, and the plot by 'Basin' has drawn the frame of
\* the zipped shapefile
C12_Witness ==
    /\ nb = "geo"
    /\ {ShpPath, ZipPath} \subseteq reads
    /\ Succeeded(Idx(Cell_a3a00fbd))
    /\ display[Idx(Cell_a3a00fbd)].kind = "figure"
    /\ display[Idx(Cell_a3a00fbd)].of = ZipPath

-----------------------------------------------------------------------------
(* C13.  In a session of the GeoPandas notebook, in any order of the cells *)
(* and with cells executed again: the driver table changes only by gaining *)
(* the entry 'KML' -> 'rw', in a step of the enabling cell, and every      *)
(* other driver keeps its value; when the enabling cell has executed the   *)
(* entry is there; once there it is never removed or changed; and what     *)
(* fiona.supported_drivers displays is the table geopandas has changed.    *)
C13_OnlyKmlChanges ==
    [][ /\ (drivers' # drivers) =>
              /\ \E c \in DOMAIN active : Cells(nb)[c] = Cell_e58bade8
              /\ DOMAIN drivers' = DOMAIN drivers \cup {"KML"}
              /\ drivers'["KML"] = "rw"
              /\ \A d \in DOMAIN drivers \ {"KML"} : drivers'[d] = drivers[d]
        /\ \A c \in DOMAIN active :
              (Cells(nb)[c] = Cell_e58bade8 /\ c \in DOMAIN active' /\ active'[c] > active[c]) =>
                  ("KML" \in DOMAIN drivers' /\ drivers'["KML"] = "rw")
        /\ ("KML" \in DOMAIN drivers) =>
              ("KML" \in DOMAIN drivers' /\ drivers'["KML"] = drivers["KML"])
        /\ \A c \in 1..NCells :
              (display'[c] # display[c] /\ display'[c].kind = "dict") =>
                  display'[c].d = drivers'
      ]_vars

\* fiona.supported_drivers has been displayed after the driver was enabled,
\* and shows 'KML' next to the drivers of the fresh kernel
C13_Witness ==
    /\ nb = "geo"
    /\ display[Idx(Cell_71e07c36)].kind = "dict"
    /\ "KML" \in DOMAIN display[Idx(Cell_71e07c36)].d
    /\ \A d \in DOMAIN DefaultDrivers :
          display[Idx(Cell_71e07c36)].d[d] = DefaultDrivers[d]

-----------------------------------------------------------------------------
(* C14.  In a session of either notebook the inspection, plot and help     *)
(* cells, and every expression and help statement, leave the namespace as  *)
(* it is: no variable is bound or rebound and no variable changes its      *)
(* value.  Each of df, geometries, gdf_csv, gdf_geojson, gdf_kml, sdf,     *)
(* sdf_shp and sdf_state is assigned by exactly one cell of its notebook,  *)
(* so once bound it stays bound by the same statement.                     *)

\* the cells that inspect, plot or ask for help
Inspections ==
    IF nb = "geo"
    THEN { Cell_5b16e827, Cell_064e516b, Cell_719de7cd, Cell_0fb03212, Cell_2ada92fa,
           Cell_826722d1, Cell_bf4a382a, Cell_66376b10, Cell_11a12284, Cell_5e9afb41,
           Cell_7ecf60e6, Cell_a3a00fbd, Cell_b47d23d2, Cell_71e07c36 }
    ELSE { Cell_0888b590, Cell_2f406e70, Cell_eeb8e7a1, Cell_fd72f698, Cell_ff373488,
           Cell_a7a4f187, Cell_162bdd83, Cell_20aeb30a, Cell_15364cb2, Cell_ac63ffdc,
           Cell_74040082, Cell_a5cfee73, Cell_83c84325 }

\* the variables the claim names, per notebook
AssignedOnce ==
    IF nb = "geo" THEN {"df", "geometries", "gdf_csv", "gdf_geojson", "gdf_kml"}
                  ELSE {"df", "sdf", "sdf_shp", "sdf_state"}

C14_InspectionReadOnly ==
    /\ \A x \in AssignedOnce : Cardinality(Assigning(x)) = 1
    /\ [][ /\ \A c \in DOMAIN active :
                 (\/ Cells(nb)[c] \in Inspections
                  \/ (Reading(c) /\ Current(c).op \in {"expr", "help"})) =>
                     (ns' = ns /\ binder' = binder)
           /\ \A x \in AssignedOnce :
                 /\ x \in DOMAIN binder' => binder'[x][1] \in Assigning(x)
                 /\ x \in DOMAIN binder => (x \in DOMAIN binder' /\ binder'[x] = binder[x])
         ]_vars

\* the help, type, centroid and plot cells on sdf have displayed their
\* output, and sdf is the frame built from the CSV file
C14_Witness ==
    /\ nb = "arc"
    /\ display[Idx(Cell_0888b590)].kind = "help"
    /\ display[Idx(Cell_eeb8e7a1)].kind = "class"
    /\ display[Idx(Cell_ff373488)].kind = "centroid"
    /\ display[Idx(Cell_a7a4f187)].kind = "MapView"
    /\ Bound("sdf")
    /\ ns["sdf"].src = CsvPath

-----------------------------------------------------------------------------
(* C15.  With the files and the service unchanged, after a complete pass   *)
(* over a notebook cell by cell: running the whole notebook again, or      *)
(* executing again single cells other than the first assignment of gdf_shp *)
(* and the cell that reads the CSV file into df, leaves every variable and *)
(* the driver table with the value they had after the first pass.          *)
(* Executing the first assignment of gdf_shp again does change gdf_shp,    *)
(* and reading the CSV file again changes df where the library had added   *)
(* the geometry column to df itself.                                       *)

\* the cells executed more than once
Repeated == { c \in 1..NCells : execCount[c] > 1 }

\* the cells that do not restore the namespace when executed again alone
NotRestoring ==
    IF nb = "geo" THEN {Idx(Cell_a7c994ec), Idx(Cell_8ae16e96)}
                  ELSE {Idx(Cell_7849d27c)}

C15_IdempotentButTwo ==
    (snap.taken /\ PassOver) =>
        /\ drivers = snap.drivers
        /\ DOMAIN ns = DOMAIN snap.ns
        /\ (Repeated = CodeCells \/ Repeated \cap NotRestoring = {}) => ns = snap.ns
        /\ (nb = "geo" /\ Repeated = {Idx(Cell_a7c994ec)}) =>
              /\ snap.ns["gdf_shp"].src = ZipPath
              /\ ns["gdf_shp"].src = ShpPath
        /\ (nb = "geo" /\ Repeated = {Idx(Cell_8ae16e96)}) =>
              (ns["df"] # snap.ns["df"]) = inplace
        /\ (nb = "arc" /\ Repeated = {Idx(Cell_7849d27c)}) =>
              (ns["df"] # snap.ns["df"]) = inplace

\* C15 as stated: after the first pass, whatever cell is executed again, the
\* variables and the driver table are as they were.  Violated by executing
\* gdf_shp = gpd.read_file('../data/Major_Basins.shp') again.
C15_Idempotent ==
    (snap.taken /\ PassOver) => (ns = snap.ns /\ drivers = snap.drivers)

\* the GeoPandas notebook has been run a second time in the same kernel, and
\* the variables and the driver table, 'KML' included, are as after the first
C15_Witness ==
    /\ nb = "geo"
    /\ snap.taken
    /\ PassOver
    /\ Repeated = CodeCells
    /\ ns = snap.ns
    /\ ns["gdf_shp"].src = ZipPath
    /\ "KML" \in DOMAIN drivers
    /\ drivers = snap.drivers

-----------------------------------------------------------------------------
(* C16.  In a session in which the cells are run by hand in any order, a   *)
(* statement other than a '?' help request that reads a name bound neither *)
(* by an executed cell nor by an earlier statement of its own cell is the  *)
(* first statement of its cell and ends the cell with NameError, and the   *)
(* namespace and the driver table are as before the cell: 'x = f(y)' with  *)
(* y unbound does not bind x.  A help request on an unbound name shows     *)
(* "not found" and is no error; it changes nothing either.  The cell that  *)
(* is no Python ends with SyntaxError whatever is bound.                   *)

\* the names a statement after the first reads are bound by its own cell
OwnNamesLater ==
    \A c \in 1..NCells : \A i \in 2..Len(Cells(nb)[c]) :
        NamesRead(Cells(nb)[c][i]) \subseteq
            { Cells(nb)[c][j].target : j \in 1..(i-1) }

\* cell c is about to execute a statement that reads an unbound name
ReadsUnbound(c) == Reading(c) /\ ~(NamesRead(Current(c)) \subseteq DOMAIN ns)

C16_UnboundNameError ==
    /\ OwnNamesLater
    /\ [][ \A c \in DOMAIN active :
              /\ ReadsUnbound(c) =>
                    /\ ns' = ns
                    /\ binder' = binder
                    /\ drivers' = drivers
                    /\ IF Current(c).op = "help"
                       THEN /\ c \in DOMAIN active'
                            /\ lastExc'[c] = ""
                            /\ display'[c].kind = "not found"
                       ELSE /\ active[c] = 1
                            /\ c \notin DOMAIN active'
                            /\ lastExc'[c] = "NameError"
              /\ ~Parses(c) =>
                    /\ ns' = ns
                    /\ binder' = binder
                    /\ drivers' = drivers
                    /\ c \notin DOMAIN active'
                    /\ lastExc'[c] = "SyntaxError"
         ]_vars

\* C16 as stated: every cell that reads an unbound name fails with an error.
\* Violated by the help cells, which report "Object not found" and go on.
C16_UnboundNameFails ==
    [][ \A c \in DOMAIN active : ReadsUnbound(c) =>
           /\ ns' = ns
           /\ drivers' = drivers
           /\ c \notin DOMAIN active'
           /\ lastExc'[c] # ""
      ]_vars

\* cells run by hand: after the imports, geometries = gpd.points_from_xy(...)
\* was executed with df unbound, ended with NameError and bound nothing
C16_Witness ==
    /\ nb = "geo"
    /\ mode = "free"
    /\ Bound("gpd")
    /\ ~Bound("df")
    /\ lastExc[Idx(Cell_ab1525c9)] = "NameError"
    /\ ~Bound("geometries")
    /\ Idx(Cell_ab1525c9) \notin DOMAIN active

-----------------------------------------------------------------------------
(* C17.  In the ArcGIS notebook state_layer is the layer of                *)
(* state_layer_url (.../FeatureServer/0), sdf_state is the frame queried   *)
(* from state_layer, and county_layer_url (.../FeatureServer/1) is         *)
(* assigned and read by no statement: the only URL handed to FeatureLayer  *)
(* and the only URL queried is that of layer 0.                            *)
C17_LayerZeroOnly ==
    nb = "arc" =>
        /\ "county_layer_url" \in Targets(Idx(Cell_c1a867a9))
        /\ \A c \in 1..NCells : \A i \in 1..Len(Cells(nb)[c]) :
              "county_layer_url" \notin NamesRead(Cells(nb)[c][i])
        /\ Bound("state_layer_url") => ns["state_layer_url"] = StrV(StateLayerUrl)
        /\ Bound("county_layer_url") => ns["county_layer_url"] = StrV(CountyLayerUrl)
        /\ Bound("state_layer") =>
              /\ ns["state_layer"].kind = "FeatureLayer"
              /\ Bound("state_layer_url")
              /\ ns["state_layer"].url = ns["state_layer_url"].s
        /\ Bound("sdf_state") =>
              /\ Bound("state_layer")
              /\ ns["sdf_state"].kind = "frame"
              /\ ns["sdf_state"].src = ns["state_layer"].url
              /\ ns["sdf_state"].rows = service[StateLayerUrl].rows
        /\ layers \subseteq {StateLayerUrl}
        /\ requests \subseteq {StateLayerUrl}
        /\ CountyLayerUrl \notin layers \cup requests

\* both URLs are bound, and sdf_state has been queried from layer 0
C17_Witness ==
    /\ nb = "arc"
    /\ Bound("county_layer_url")
    /\ Bound("sdf_state")
    /\ layers = {StateLayerUrl}
    /\ requests = {StateLayerUrl}

-----------------------------------------------------------------------------
(* The markdown cells: headings and the links of the table of contents.    *)
(* A text is the sequence of its words, with every space and every hyphen  *)
(* an element of its own.  Inline code marks are left out, as in the       *)
(* rendered heading.  The arrow some headings begin with (the character    *)
(* U+25BA, black right-pointing pointer) is the element "U+25BA".  The     *)
(* headings written inside a block quote and the heading written as an     *)
(* HTML h3 element are rendered as headings and have anchors like the      *)
(* others.                                                                 *)

\* the markdown headings of the GeoPandas notebook, in document order
GeoHeadings ==
    <<
      << "Spatial", " ", "Dataframes", " ", "1:", " ", "Creating", " ",
         "them", " ", "using", " ", "GeoPandas" >>,
      << "What", " ", "is", " ", "a", " ", "spatial", " ", "dataframe" >>,
      << "Libraries", " ", "for", " ", "working", " ", "with", " ",
         "spatial", " ", "dataframes" >>,
      << "Lesson", " ", "1", " ", "-", " ", "Constructing", " ", "Spatial",
         " ", "Dataframes" >>,
      << "1.1", " ", "-", " ", "Creating", " ", "spatial", " ",
         "dataframes", " ", "from", " ", "CSV", " ", "files", " ", "using",
         " ", "GeoPandas" >>,
      << "Step", " ", "1.", " ", "Importing", " ", "the", " ", "data", " ",
         "into", " ", "a", " ", "Pandas", " ", "dataframe" >>,
      << "Step", " ", "2.", " ", "Creating", " ", "a", " ", "column", " ",
         "of", " ", "geometric", " ", "objects", " ", "(i.e.,", " ", "a",
         " ", "GeoSeries)" >>,
      << "Step", " ", "3.", " ", "Constructing", " ", "the", " ",
         "Geodataframe", " ", "from", " ", "the", " ", "data,", " ", "the",
         " ", "geoseries,", " ", "and", " ", "the", " ", "crs" >>,
      << "U+25BA", " ", "What", " ", "is", " ", "an", " ", "WKID", " ",
         "code?" >>,
      << "Step", " ", "4.", " ", "Exploring", " ", "our", " ",
         "geodataframe" >>,
      << "1.2:", " ", "Creating", " ", "spatial", " ", "dataframes", " ",
         "from", " ", "existing", " ", "feature", " ", "classes" >>,
      << "Step", " ", "1.", " ", "Importing", " ", "shapefiles", " ",
         "using", " ", "read_file()" >>,
      << "1.3", " ", "-", " ", "Creating", " ", "spatial", " ",
         "dataframes", " ", "from", " ", "other", " ", "file", " ",
         "formats" >>,
      << "1.3.1", " ", "-", " ", "Reading", " ", "GeoJSON", " ", "files" >>,
      << "What", " ", "is", " ", "GeoJSON?" >>,
      << "1.3.2", " ", "-", " ", "Reading", " ", "KML", " ", "files" >>,
      << "U+25BA", " ", "What", " ", "is", " ", "KML?" >>,
      << "1.3.3", " ", "Reading", " ", "ESRI", " ", "Geodatabase", " ",
         "files" >>
    >>

\* the anchors of the links in its table of contents
GeoAnchors ==
    <<
      << "1.1", "-", "-", "-", "Creating", "-", "spatial", "-",
         "dataframes", "-", "from", "-", "CSV", "-", "files", "-", "using",
         "-", "GeoPandas" >>,
      << "1.2:", "-", "Creating", "-", "spatial", "-", "dataframes", "-",
         "from", "-", "existing", "-", "feature", "-", "classes" >>,
      << "1.3", "-", "-", "-", "Creating", "-", "spatial", "-",
         "dataframes", "-", "from", "-", "other", "-", "file", "-",
         "formats" >>
    >>

\* the markdown headings of the ArcGIS notebook, in document order
ArcHeadings ==
    <<
      << "Spatial", " ", "Dataframes", " ", "1b:", " ", "Creating", " ",
         "them", " ", "using", " ", "the", " ", "ArcGIS", " ", "API", " ",
         "for", " ", "Python" >>,
      << "Note:", " ", "This", " ", "notebook", " ", "should", " ", "be",
         " ", "run", " ", "using", " ", "the", " ", "defauly", " ",
         "Conda", " ", "environment", " ", "included", " ", "with", " ",
         "ArcGIS", " ", "Pro" >>,
      << "The", " ", "ArcGIS", " ", "Python", " ", "API", " ", "vs", " ",
         "GeoPandas" >>,
      << "The", " ", "Lesson", " ", " ", "-", " ", "Constructing", " ",
         "Spatial", " ", "Dataframes", " ", "with", " ", "the", " ",
         "ArcGIS", " ", "API" >>,
      << "1.1", " ", "-", " ", "Creating", " ", "spatial", " ",
         "dataframes", " ", "from", " ", "CSV", " ", "files", " ", "using",
         " ", "the", " ", "ArcGIS", " ", "Python", " ", "API" >>,
      << "Step", " ", "1.", " ", "Import", " ", "the", " ", "GeoAccessor",
         " ", "object", " ", "and", " ", "read", " ", "the", " ", "CSV",
         " ", "file", " ", "directly" >>,
      << "U+25BA", "Spatial", " ", "references", " ", "with", " ", "the",
         " ", "GeoAccessor", " ", "object" >>,
      << "1.2", " ", "Explore", " ", "our", " ", "new", " ", "object" >>,
      << "1.2:", " ", "Creating", " ", "spatial", " ", "dataframes", " ",
         "from", " ", "existing", " ", "feature", " ", "classes" >>,
      << "Step", " ", "1.", " ", "Importing", " ", "shapefiles", " ",
         "using", " ", "from_featureclass()" >>,
      << "1.3", " ", "-", " ", "Creating", " ", "spatial", " ",
         "dataframes", " ", "from", " ", "other", " ", "file", " ",
         "formats" >>
    >>

\* the anchors of the links in its table of contents
ArcAnchors ==
    <<
      << "1.1", "-", "-", "-", "Creating", "-", "spatial", "-",
         "dataframes", "-", "from", "-", "CSV", "-", "files", "-", "using",
         "-", "GeoPandas" >>,
      << "1.2:", "-", "Creating", "-", "spatial", "-", "dataframes", "-",
         "from", "-", "existing", "-", "feature", "-", "classes" >>,
      << "1.3", "-", "-", "-", "Creating", "-", "spatial", "-",
         "dataframes", "-", "from", "-", "other", "-", "file", "-",
         "formats" >>
    >>

Headings(n) == IF n = "geo" THEN GeoHeadings ELSE ArcHeadings
Anchors(n)  == IF n = "geo" THEN GeoAnchors ELSE ArcAnchors

\* the anchor of a heading: its text with the spaces replaced by hyphens
Slug(text) == [i \in 1..Len(text) |-> IF text[i] = " " THEN "-" ELSE text[i]]

\* the headings of notebook n that the anchor leads to
Resolves(n, anchor) ==
    { i \in 1..Len(Headings(n)) : Slug(Headings(n)[i]) = anchor }

-----------------------------------------------------------------------------
(* C18.  Every link of the table of contents of a notebook leads to a      *)
(* heading of the same notebook: for each of its three anchors there is a  *)
(* heading whose text, with the spaces replaced by hyphens, is the anchor. *)
(* Violated in the ArcGIS notebook: its first link has the anchor of the   *)
(* GeoPandas heading "1.1 - ... using GeoPandas", and its own heading 1.1  *)
(* ends in "using the ArcGIS Python API".                                  *)
C18_AnchorsResolve ==
    /\ Len(Anchors(nb)) = 3
    /\ \A k \in 1..Len(Anchors(nb)) : Resolves(nb, Anchors(nb)[k]) # {}

====
